---- MODULE Spec2Model ----
(***************************************************************************)
(* Model of certbot_dns_dreamhost/dns_dreamhost.py: the Authenticator's    *)
(* _perform/_cleanup and the _DreamHostClient that talks to the DreamHost  *)
(* REST API.  Every HTTP GET the client issues is one step; the provider    *)
(* (its record list and its answers) is the environment.                   *)
(***************************************************************************)
EXTENDS Integers, Sequences, FiniteSets, TLC

VARIABLES
    records,     \* provider: the ordered record list that dns-list_records returns
    authOnly,    \* history: the records came from none by perform and cleanup alone
    pc,          \* per client: where its current call stands
    entry,       \* per client: "perform" / "cleanup" (Authenticator) or "direct"
    op,          \* per client: the method being run: new, add, delete, get, api
    caller,      \* per client: who called delete_txt_record: "top" or "add"
    name,        \* per client: record_name of the current call
    content,     \* per client: record_content of the current call
    baseurl,     \* per client: self.baseurl
    api_key,     \* per client: self.api_key
    valid_key,   \* per client: self.valid_key
    nprobe,      \* per client: requests issued by _test_key since construction
    log,         \* per client: requests issued by the current call, in order
    outcome,     \* per client: "none" while running, "ok", or the exception raised
    result,      \* per client: the value the current call returned
    start,       \* per client: provider records when the current call began
    prev         \* summary of the call that completed last (sequential runs)

vars == <<records, authOnly, pc, entry, op, caller, name, content, baseurl,
          api_key, valid_key, nprobe, log, outcome, result, start, prev>>

----------------------------------------------------------------------------
(* Bounds and input sets *)

MaxInit == 2

HTTP_OK == 200

Clients == {"c1", "c2"}
Names == {"n1", "n2"}
Values == {"v1", "v2"}
BaseUrls == {"https://api.dreamhost.com/"}
ApiKeys == {"KEY"}
Statuses == {HTTP_OK, 500}
Bodies == {"nonjson", "malformed", "invalid_api_key", "error", "success"}
Responses == [status : Statuses, body : Bodies]

TxtRecords == [record : Names, type : {"TXT"}, value : Values]
OtherRecords == [record : {"n1"}, type : {"A"}, value : {"v1"}]
RecordUniverse == TxtRecords \cup OtherRecords

RECURSIVE SeqsUpTo(_, _)
SeqsUpTo(S, n) ==
    IF n = 0 THEN {<<>>}
    ELSE LET shorter == SeqsUpTo(S, n - 1)
         IN  shorter \cup {Append(s, r) : s \in shorter, r \in S}

NoDup(s) == \A i, j \in 1..Len(s) : i # j => s[i] # s[j]

InitialRecords == {s \in SeqsUpTo(RecordUniverse, MaxInit) : NoDup(s)}

----------------------------------------------------------------------------
(* The client's pure parts *)

\* _get_url plus the "&format=json" suffix: the request as the provider sees it
GetUrl(c, cmd, n, v) ==
    [url |-> baseurl[c], key |-> api_key[c], cmd |-> cmd,
     record |-> n, type |-> IF cmd = "dns-list_records" THEN "" ELSE "TXT",
     value |-> v]

ListUrl(c) == GetUrl(c, "dns-list_records", "", "")
AddUrl(c) == GetUrl(c, "dns-add_record", name[c], content[c])
\* slip: the remove request names the record but not its value
RemoveUrlNoValue(c) == GetUrl(c, "dns-remove_record", name[c], "")

RemoveUrl(c) == GetUrl(c, "dns-remove_record", name[c], content[c])

\* slip: a probe answered with another status than 200 counts as a bad key
TestKeyByStatus(resp) ==
    IF resp.status # HTTP_OK \/ resp.body = "nonjson" THEN "invalid"
    ELSE IF resp.body = "malformed" THEN "KeyError"
    ELSE IF resp.body = "invalid_api_key" THEN "invalid"
    ELSE "valid"

\* _test_key on a probe response: "valid", "invalid", or the exception it raises
TestKey(resp) ==
    IF resp.body = "nonjson" THEN "invalid"
    ELSE IF resp.body = "malformed" THEN "KeyError"
    ELSE IF resp.body = "invalid_api_key" THEN "invalid"
    ELSE "valid"

\* slip: the status code is not looked at
ApiOutcomeNoStatus(resp) ==
    IF resp.body = "nonjson" THEN "NonJSON"
    ELSE IF resp.body = "malformed" THEN "KeyError"
    ELSE IF resp.body = "success" THEN "ok"
    ELSE "PluginError"

\* _api_request on a response: "ok" or the exception it raises
ApiOutcome(resp) ==
    IF resp.status # HTTP_OK THEN "HTTPError"
    ELSE IF resp.body = "nonjson" THEN "NonJSON"
    ELSE IF resp.body = "malformed" THEN "KeyError"
    ELSE IF resp.body = "success" THEN "ok"
    ELSE "PluginError"

\* slip: the type is not compared
MatchesAnyType(rec, n) == rec.record = n

\* slip: the name is not compared
MatchesAnyName(rec, n) == rec.type = "TXT"

\* the test of get_existing_txt's loop
Matches(rec, n) == rec.record = n /\ rec.type = "TXT"

\* slip: the scan keeps going and returns the last match
RECURSIVE GetExistingLast(_, _)
GetExistingLast(recs, n) ==
    IF recs = <<>> THEN <<>>
    ELSE IF GetExistingLast(Tail(recs), n) # <<>> THEN GetExistingLast(Tail(recs), n)
    ELSE IF Matches(Head(recs), n) THEN <<Head(recs)>>
    ELSE <<>>

\* get_existing_txt's scan: <<first matching record>>, or <<>> for None
RECURSIVE GetExisting(_, _)
GetExisting(recs, n) ==
    IF recs = <<>> THEN <<>>
    ELSE IF Matches(Head(recs), n) THEN <<Head(recs)>>
    ELSE GetExisting(Tail(recs), n)

\* slip: the comparison is turned round
SameValueNegated(rec, v) == rec.value # v

\* slip: the stored value is not compared with record_content
SameValueAlways(rec, v) == TRUE

\* the test "record['value'] == record_content" of add and delete
SameValue(rec, v) == rec.value = v

None == [none |-> TRUE, recs |-> <<>>]
Value(recs) == [none |-> FALSE, recs |-> recs]

----------------------------------------------------------------------------
(* The provider *)

Removed(recs, req) ==
    SelectSeq(recs, LAMBDA r : ~(r.record = req.record /\ r.type = req.type
                                  /\ r.value = req.value))

Inserted(recs, req, i) ==
    LET rec == [record |-> req.record, type |-> req.type, value |-> req.value]
    IN  IF \E k \in 1..Len(recs) : recs[k] = rec THEN recs
        ELSE SubSeq(recs, 1, i) \o <<rec>> \o SubSeq(recs, i + 1, Len(recs))

\* the provider acts on a request exactly when it answers 200 / success
Applied(resp) == resp.status = HTTP_OK /\ resp.body = "success"

Provider(req, resp, i) ==
    IF ~Applied(resp) THEN records
    ELSE IF req.cmd = "dns-add_record" THEN Inserted(records, req, i)
    ELSE IF req.cmd = "dns-remove_record" THEN Removed(records, req)
    ELSE records

----------------------------------------------------------------------------
(* State changes shared by the steps *)

NoPrev == [op |-> "none", name |-> "", content |-> "", nadd |-> 0, start |-> <<>>]

CountCmd(l, cmd) == Cardinality({i \in 1..Len(l) : l[i].req.cmd = cmd})

\* the places of the TXT records at n in a record list, and the first of them
TxtAt(recs, n) ==
    {i \in 1..Len(recs) : recs[i].record = n /\ recs[i].type = "TXT"}

FirstTxt(recs, n) ==
    recs[CHOOSE i \in TxtAt(recs, n) : \A j \in TxtAt(recs, n) : i <= j]

\* the first TXT record at n carries value v
Holds(recs, n, v) ==
    TxtAt(recs, n) # {} /\ FirstTxt(recs, n).value = v

Init ==
    /\ records \in InitialRecords
    /\ authOnly = (records = <<>>)
    /\ pc = [c \in Clients |-> "idle"]
    /\ entry = [c \in Clients |-> "direct"]
    /\ op = [c \in Clients |-> "none"]
    /\ caller = [c \in Clients |-> "top"]
    /\ name = [c \in Clients |-> ""]
    /\ content = [c \in Clients |-> ""]
    /\ baseurl = [c \in Clients |-> ""]
    /\ api_key = [c \in Clients |-> ""]
    /\ valid_key = [c \in Clients |-> FALSE]
    /\ nprobe = [c \in Clients |-> 0]
    /\ log = [c \in Clients |-> <<>>]
    /\ outcome = [c \in Clients |-> "none"]
    /\ result = [c \in Clients |-> None]
    /\ start = [c \in Clients |-> <<>>]
    /\ prev = NoPrev

\* the call ends: it returned val, or raised out
Finish(c, out, val) ==
    /\ pc' = [pc EXCEPT ![c] = "done"]
    /\ outcome' = [outcome EXCEPT ![c] = out]
    /\ result' = [result EXCEPT ![c] = val]

Goto(c, label) ==
    /\ pc' = [pc EXCEPT ![c] = label]
    /\ UNCHANGED <<outcome, result>>

\* session.get(url) by _api_request: the provider answers resp, the call logs it
Send(c, req, resp, i) ==
    /\ records' = Provider(req, resp, i)
    /\ log' = [log EXCEPT ![c] = Append(@, [req |-> req, resp |-> resp])]

\* slip: __init__ sends no probe and takes the key for good
ProbeSkipped(c, url, key, resp) ==
    /\ baseurl' = [baseurl EXCEPT ![c] = url]
    /\ api_key' = [api_key EXCEPT ![c] = key]
    /\ valid_key' = [valid_key EXCEPT ![c] = TRUE]
    /\ UNCHANGED nprobe

\* _DreamHostClient.__init__ with _test_key: one probe, its verdict stored
Probe(c, url, key, resp) ==
    /\ baseurl' = [baseurl EXCEPT ![c] = url]
    /\ api_key' = [api_key EXCEPT ![c] = key]
    /\ nprobe' = [nprobe EXCEPT ![c] = @ + 1]
    /\ valid_key' = [valid_key EXCEPT ![c] = (TestKey(resp) = "valid")]

\* what a call keeps of the provider's records as they were when it began
Tracked(m, recs, n) ==
    IF m.track = "all" THEN recs
    ELSE IF m.track = "own"
    THEN SelectSeq(recs, LAMBDA r : r.record = n /\ r.type = "TXT")
    ELSE <<>>

Begin(c, m, ent, method, n, v) ==
    /\ entry' = [entry EXCEPT ![c] = ent]
    /\ op' = [op EXCEPT ![c] = method]
    /\ caller' = [caller EXCEPT ![c] = "top"]
    /\ name' = [name EXCEPT ![c] = n]
    /\ content' = [content EXCEPT ![c] = v]
    /\ start' = [start EXCEPT ![c] = Tracked(m, records, n)]

Reset(c) ==
    /\ entry' = [entry EXCEPT ![c] = "direct"]
    /\ op' = [op EXCEPT ![c] = "none"]
    /\ caller' = [caller EXCEPT ![c] = "top"]
    /\ name' = [name EXCEPT ![c] = ""]
    /\ content' = [content EXCEPT ![c] = ""]
    /\ log' = [log EXCEPT ![c] = <<>>]
    /\ outcome' = [outcome EXCEPT ![c] = "none"]
    /\ result' = [result EXCEPT ![c] = None]
    /\ start' = [start EXCEPT ![c] = <<>>]

\* the client object goes out of use
Drop(c) ==
    /\ baseurl' = [baseurl EXCEPT ![c] = ""]
    /\ api_key' = [api_key EXCEPT ![c] = ""]
    /\ valid_key' = [valid_key EXCEPT ![c] = FALSE]
    /\ nprobe' = [nprobe EXCEPT ![c] = 0]

\* what the next call may know of the call that just completed
Summary(c) ==
    IF op[c] = "new" /\ entry[c] = "direct" THEN prev
    ELSE IF op[c] = "add" /\ outcome[c] = "ok" /\ ~Holds(start[c], name[c], content[c])
    THEN [op |-> "add", name |-> name[c], content |-> content[c],
          nadd |-> CountCmd(log[c], "dns-add_record"), start |-> start[c]]
    ELSE NoPrev

----------------------------------------------------------------------------
(* Entry points *)

\* the URL _test_key builds from the credentials just stored
ProbeUrl(url, key) ==
    [url |-> url, key |-> key, cmd |-> "dns-list_records",
     record |-> "", type |-> "", value |-> ""]

\* _DreamHostClient(baseurl, api_key) called on its own
Construct(c, m) ==
    /\ pc[c] = "idle"
    /\ \E url \in BaseUrls, key \in ApiKeys, resp \in m.responses :
          /\ Probe(c, url, key, resp)
          /\ Begin(c, m, "direct", "new", "", "")
          /\ Finish(c, IF TestKey(resp) = "KeyError" THEN "KeyError" ELSE "ok", None)
          /\ log' = [log EXCEPT ![c] = <<[req |-> ProbeUrl(url, key), resp |-> resp]>>]
    /\ UNCHANGED <<records, authOnly, prev>>

\* slip: the key test is left out
KeyCheckSkipped(c, valid, label) == Goto(c, label)

\* slip: add_txt_record creates its record without looking first
KeyCheckThenCreate(c, valid, label) ==
    IF valid THEN Goto(c, IF label = "add_lookup" THEN "add_create" ELSE label)
    ELSE Finish(c, "InvalidKey", None)

\* the key test that opens add_txt_record and delete_txt_record
KeyCheck(c, valid, label) ==
    IF valid THEN Goto(c, label) ELSE Finish(c, "InvalidKey", None)

\* Authenticator._perform: a fresh client, then add_txt_record on it
Perform(c, m) ==
    /\ pc[c] = "idle"
    /\ \E url \in BaseUrls, key \in ApiKeys, resp \in m.responses,
          n \in m.names[c], v \in Values :
          /\ Probe(c, url, key, resp)
          /\ Begin(c, m, "perform", IF TestKey(resp) = "KeyError" THEN "new" ELSE "add", n, v)
          /\ IF TestKey(resp) = "KeyError" THEN Finish(c, "KeyError", None)
             ELSE KeyCheck(c, TestKey(resp) = "valid", "add_lookup")
    /\ UNCHANGED <<records, authOnly, prev, log>>

\* Authenticator._cleanup: a fresh client, then delete_txt_record on it
Cleanup(c, m) ==
    /\ pc[c] = "idle"
    /\ \E url \in BaseUrls, key \in ApiKeys, resp \in m.responses,
          n \in m.names[c], v \in Values :
          /\ Probe(c, url, key, resp)
          /\ Begin(c, m, "cleanup", IF TestKey(resp) = "KeyError" THEN "new" ELSE "delete", n, v)
          /\ IF TestKey(resp) = "KeyError" THEN Finish(c, "KeyError", None)
             ELSE KeyCheck(c, TestKey(resp) = "valid", "del_lookup")
    /\ UNCHANGED <<records, authOnly, prev, log>>

\* add_txt_record called on a constructed client
CallAdd(c, m) ==
    /\ pc[c] = "ready"
    /\ \E n \in m.names[c], v \in Values : Begin(c, m, "direct", "add", n, v)
    /\ KeyCheck(c, valid_key[c], "add_lookup")
    /\ UNCHANGED <<records, prev, log, baseurl, api_key, valid_key, nprobe>>
    /\ authOnly' = FALSE

\* delete_txt_record called on a constructed client
CallDelete(c, m) ==
    /\ pc[c] = "ready"
    /\ \E n \in m.names[c], v \in Values : Begin(c, m, "direct", "delete", n, v)
    /\ KeyCheck(c, valid_key[c], "del_lookup")
    /\ UNCHANGED <<records, prev, log, baseurl, api_key, valid_key, nprobe>>
    /\ authOnly' = FALSE

\* get_existing_txt called on a constructed client
CallGet(c, m) ==
    /\ pc[c] = "ready"
    /\ \E n \in m.names[c] :
          /\ Begin(c, m, "direct", "get", n, "")
          /\ IF ~valid_key[c]
             THEN Finish(c, "ok", None) /\ UNCHANGED <<records, log>>
             ELSE \E resp \in m.responses :
                    LET rec == GetExisting(records, n)
                    IN  /\ Send(c, ListUrl(c), resp, 0)
                        /\ IF ApiOutcome(resp) # "ok"
                           THEN Finish(c, ApiOutcome(resp), None)
                           ELSE Finish(c, "ok", IF rec = <<>> THEN None ELSE Value(rec))
    /\ UNCHANGED <<authOnly, prev, baseurl, api_key, valid_key, nprobe>>

ApiActions(c) ==
    {ListUrl(c)} \cup
    {GetUrl(c, cmd, n, v) : cmd \in {"dns-add_record", "dns-remove_record"},
                            n \in Names, v \in Values}

\* _api_request(action) called on a constructed client
CallApi(c, m) ==
    /\ pc[c] = "ready"
    /\ \E req \in ApiActions(c) :
          /\ Begin(c, m, "direct", "api", req.record, req.value)
          /\ IF ~valid_key[c]
             THEN Finish(c, "ok", None) /\ UNCHANGED <<records, log>>
             ELSE \E resp \in m.responses, i \in 0..Len(records) :
                    /\ Send(c, req, resp, i)
                    /\ IF ApiOutcome(resp) # "ok"
                       THEN Finish(c, ApiOutcome(resp), None)
                       ELSE Finish(c, "ok",
                                   Value(IF req.cmd = "dns-list_records"
                                         THEN records ELSE <<>>))
    /\ authOnly' = FALSE
    /\ UNCHANGED <<prev, baseurl, api_key, valid_key, nprobe>>

----------------------------------------------------------------------------
(* The requests of add_txt_record and delete_txt_record, one step each *)

Frame == <<authOnly, prev, entry, op, name, content, baseurl, api_key,
           valid_key, nprobe, start>>

\* add_txt_record: record = self.get_existing_txt(record_name), and the branch on it
AddLookup(c, m) ==
    /\ pc[c] = "add_lookup"
    /\ IF ~valid_key[c]
       THEN Goto(c, "add_create") /\ UNCHANGED <<records, log, caller>>
       ELSE
       \E resp \in m.responses :
          LET rec == GetExisting(records, name[c])
          IN  /\ Send(c, ListUrl(c), resp, 0)
              /\ IF ApiOutcome(resp) # "ok"
                 THEN Finish(c, ApiOutcome(resp), None) /\ UNCHANGED caller
                 ELSE IF rec = <<>>
                 THEN Goto(c, "add_create") /\ UNCHANGED caller
                 ELSE IF SameValue(rec[1], content[c])
                 THEN Finish(c, "ok", None) /\ UNCHANGED caller
                 ELSE /\ Goto(c, "del_lookup")
                      /\ caller' = [caller EXCEPT ![c] = "add"]
    /\ UNCHANGED Frame

\* delete_txt_record returns to whoever called it
DeleteReturns(c) ==
    IF caller[c] = "add" THEN Goto(c, "add_create") ELSE Finish(c, "ok", None)

\* delete_txt_record: record = self.get_existing_txt(record_name), and the branch on it
DelLookup(c, m) ==
    /\ pc[c] = "del_lookup"
    /\ IF ~valid_key[c]
       THEN DeleteReturns(c) /\ UNCHANGED <<records, log>>
       ELSE
       \E resp \in m.responses :
          LET rec == GetExisting(records, name[c])
          IN  /\ Send(c, ListUrl(c), resp, 0)
              /\ IF ApiOutcome(resp) # "ok"
                 THEN Finish(c, ApiOutcome(resp), None)
                 ELSE IF rec # <<>> /\ SameValue(rec[1], content[c])
                 THEN Goto(c, "del_remove")
                 ELSE DeleteReturns(c)
    /\ UNCHANGED <<Frame, caller>>

\* delete_txt_record: the dns-remove_record request
DelRemove(c, m) ==
    /\ pc[c] = "del_remove"
    /\ IF ~valid_key[c]
       THEN DeleteReturns(c) /\ UNCHANGED <<records, log>>
       ELSE
       \E resp \in m.responses :
          /\ Send(c, RemoveUrl(c), resp, 0)
          /\ IF ApiOutcome(resp) # "ok"
             THEN Finish(c, ApiOutcome(resp), None)
             ELSE DeleteReturns(c)
    /\ UNCHANGED <<Frame, caller>>

\* add_txt_record: the dns-add_record request
AddCreate(c, m) ==
    /\ pc[c] = "add_create"
    /\ IF ~valid_key[c]
       THEN Finish(c, "ok", None) /\ UNCHANGED <<records, log>>
       ELSE
       \E resp \in m.responses, i \in 0..Len(records) :
          /\ Send(c, AddUrl(c), resp, i)
          /\ Finish(c, ApiOutcome(resp), None)
    /\ UNCHANGED <<Frame, caller>>

\* the call's result reaches the caller; perform and cleanup drop their client
Return(c, m) ==
    /\ pc[c] = "done"
    /\ Reset(c)
    /\ prev' = IF m.track = "all" THEN Summary(c) ELSE prev
    /\ IF entry[c] \in {"perform", "cleanup"} \/ (op[c] = "new" /\ outcome[c] # "ok")
       THEN pc' = [pc EXCEPT ![c] = "idle"] /\ Drop(c)
       ELSE /\ pc' = [pc EXCEPT ![c] = "ready"]
            /\ UNCHANGED <<baseurl, api_key, valid_key, nprobe>>
    /\ UNCHANGED <<records, authOnly>>

\* a constructed client goes out of use
Discard(c) ==
    /\ pc[c] = "ready"
    /\ pc' = [pc EXCEPT ![c] = "idle"]
    /\ Drop(c)
    /\ UNCHANGED <<records, authOnly, prev, entry, op, caller, name, content,
                   log, outcome, result, start>>

----------------------------------------------------------------------------
(* Specifications *)

\* one client whose calls run one after the other, any provider answer
Sequential ==
    [track |-> "all", responses |-> Responses, names |-> [c \in Clients |-> Names]]

Next ==
    \E c \in {"c1"} :
        \/ Construct(c, Sequential)
        \/ Perform(c, Sequential)
        \/ Cleanup(c, Sequential)
        \/ CallAdd(c, Sequential)
        \/ CallDelete(c, Sequential)
        \/ CallGet(c, Sequential)
        \/ CallApi(c, Sequential)
        \/ AddLookup(c, Sequential)
        \/ DelLookup(c, Sequential)
        \/ DelRemove(c, Sequential)
        \/ AddCreate(c, Sequential)
        \/ Return(c, Sequential)
        \/ Discard(c)

Spec == Init /\ [][Next]_vars

\* perform and cleanup calls of two clients whose requests interleave at the
\* provider; the provider answers well or with one kind of failure
Concurrent ==
    [track |-> "none",
     responses |-> {r \in Responses :
                      \/ r.status = HTTP_OK /\ r.body = "success"
                      \/ r.status # HTTP_OK /\ r.body = "nonjson"},
     names |-> [c \in Clients |-> Names]]

NextConc ==
    \E c \in Clients :
        \/ Perform(c, Concurrent)
        \/ Cleanup(c, Concurrent)
        \/ AddLookup(c, Concurrent)
        \/ DelLookup(c, Concurrent)
        \/ DelRemove(c, Concurrent)
        \/ AddCreate(c, Concurrent)
        \/ Return(c, Concurrent)

\* the interleavings start from TXT records alone
InitConc == Init /\ \A i \in 1..Len(records) : records[i].type = "TXT"

SpecConc == InitConc /\ [][NextConc]_vars

\* perform and cleanup calls of two clients, each client on a name of its own
Apart ==
    [track |-> "own", responses |-> Concurrent.responses,
     names |-> [c \in Clients |-> IF c = "c1" THEN {"n1"} ELSE {"n2"}]]

NextApart ==
    \E c \in Clients :
        \/ Perform(c, Apart)
        \/ Cleanup(c, Apart)
        \/ AddLookup(c, Apart)
        \/ DelLookup(c, Apart)
        \/ DelRemove(c, Apart)
        \/ AddCreate(c, Apart)
        \/ Return(c, Apart)

SpecApart == Init /\ [][NextApart]_vars

\* the older copy of the module defines _perform twice and _cleanup not at all;
\* the second definition replaces the first: a fresh client, then
\* delete_txt_record on it
PerformOld(c, m) ==
    /\ pc[c] = "idle"
    /\ \E url \in BaseUrls, key \in ApiKeys, resp \in m.responses,
          n \in m.names[c], v \in Values :
          /\ Probe(c, url, key, resp)
          /\ Begin(c, m, "perform", IF TestKey(resp) = "KeyError" THEN "new" ELSE "delete", n, v)
          /\ IF TestKey(resp) = "KeyError" THEN Finish(c, "KeyError", None)
             ELSE KeyCheck(c, TestKey(resp) = "valid", "del_lookup")
    /\ UNCHANGED <<records, authOnly, prev, log>>

\* the authenticator of the older copy, its calls one after the other
NextOld ==
    \E c \in {"c1"} :
        \/ PerformOld(c, Sequential)
        \/ DelLookup(c, Sequential)
        \/ DelRemove(c, Sequential)
        \/ Return(c, Sequential)

SpecOld == Init /\ [][NextOld]_vars

----------------------------------------------------------------------------
(* Properties *)

HasRecord(n, v) ==
    \E i \in 1..Len(records) :
        records[i] = [record |-> n, type |-> "TXT", value |-> v]

\* a logged request that got status 200 and a JSON body with result "success"
Answered(e) == e.resp.status = 200 /\ e.resp.body = "success"

Mutations(l) == CountCmd(l, "dns-add_record") + CountCmd(l, "dns-remove_record")

\* the call of client c has ended and its result is still with the client
Ended(c, method) == pc[c] = "done" /\ op[c] = method

\* C1: when perform(domain, name, token) completes without error, the provider
\* holds a TXT record with record = name and value = token.
C1_PerformEnsuresRecord ==
    \A c \in Clients :
        Ended(c, "add") /\ entry[c] = "perform" /\ outcome[c] = "ok"
            => HasRecord(name[c], content[c])

\* a perform that found another value at the name and went on to create its own
C1_Witness ==
    \E c \in Clients :
        /\ Ended(c, "add") /\ entry[c] = "perform" /\ outcome[c] = "ok"
        /\ TxtAt(start[c], name[c]) # {}
        /\ ~Holds(start[c], name[c], content[c])
        /\ CountCmd(log[c], "dns-add_record") = 1

\* C2: from an empty record set and after successful perform and cleanup calls
\* alone, when cleanup(domain, name, token) completes without error the provider
\* holds no TXT record with record = name and value = token.
C2_CleanupRemovesRecord ==
    \A c \in Clients :
        authOnly /\ Ended(c, "delete") /\ entry[c] = "cleanup" /\ outcome[c] = "ok"
            => ~HasRecord(name[c], content[c])

\* C3: add(name, content) twice in a row, the name not holding content before the
\* first call: one create request over the two calls, and the second call is a
\* lookup with no mutation request.
C3_IdempotentAdd ==
    \A c \in Clients :
        /\ Ended(c, "add") /\ outcome[c] = "ok"
        /\ prev.op = "add" /\ prev.name = name[c] /\ prev.content = content[c]
        => /\ prev.nadd + CountCmd(log[c], "dns-add_record") = 1
           /\ CountCmd(log[c], "dns-list_records") >= 1
           /\ Mutations(log[c]) = 0

\* C4: add(name, content) with a TXT record at name under another value issues
\* exactly one remove request and then exactly one create request with
\* value = content.
C4_UpdateViaReplace ==
    \A c \in Clients :
        /\ Ended(c, "add") /\ outcome[c] = "ok"
        /\ TxtAt(start[c], name[c]) # {}
        /\ ~Holds(start[c], name[c], content[c])
        => \E i, j \in 1..Len(log[c]) :
              /\ i < j
              /\ log[c][i].req.cmd = "dns-remove_record"
              /\ log[c][j].req.cmd = "dns-add_record"
              /\ log[c][j].req.value = content[c]
              /\ Mutations(log[c]) = 2

\* C5: delete(name, content) whose lookup finds no TXT record at name, or one
\* with another value, issues no add or remove request, returns without error
\* and leaves the provider's records as they were.
C5_SafeDelete ==
    \A c \in Clients :
        /\ Ended(c, "delete") /\ valid_key[c]
        /\ Len(log[c]) >= 1 /\ Answered(log[c][1])
        /\ ~Holds(start[c], name[c], content[c])
        => /\ Mutations(log[c]) = 0
           /\ outcome[c] = "ok"
           /\ records = start[c]

\* a delete that found the name under another value and ended
C5_Witness ==
    \E c \in Clients :
        /\ Ended(c, "delete") /\ valid_key[c] /\ outcome[c] = "ok"
        /\ TxtAt(start[c], name[c]) # {}
        /\ ~Holds(start[c], name[c], content[c])
        /\ Len(log[c]) = 1

\* C6: on a client whose probe recorded the key as invalid, add and delete fail
\* with the invalid-key error and no request; get_existing_txt and _api_request
\* return None and issue no request.
C6_InvalidKeyShortCircuit ==
    \A c \in Clients :
        pc[c] = "done" /\ ~valid_key[c] /\ op[c] # "new"
            => /\ log[c] = <<>>
               /\ records = start[c]
               /\ op[c] \in {"add", "delete"} => outcome[c] = "InvalidKey"
               /\ op[c] \in {"get", "api"} => outcome[c] = "ok" /\ result[c] = None

\* an add called on a client that was constructed with a key the probe rejected
C6_Witness ==
    \E c \in Clients :
        /\ Ended(c, "add") /\ entry[c] = "direct" /\ ~valid_key[c]
        /\ nprobe[c] = 1 /\ outcome[c] = "InvalidKey"

\* the request client c sends in this step, if it sends one
Sends(c) == Len(log'[c]) > Len(log[c])
Sent(c) == log'[c][Len(log'[c])].req

C9_ConstructionNeverFails ==
    \A c \in Clients : Ended(c, "new") => outcome[c] = "ok"

\* C10: inside add and delete, a request answered with another status than 200,
\* a non-JSON body or a result other than success is the call's last request,
\* and the call ends in error with it.
C10_FailFast ==
    \A c \in Clients :
        op[c] \in {"add", "delete"} =>
            \A i \in 1..Len(log[c]) :
                ~Answered(log[c][i])
                    => /\ i = Len(log[c])
                       /\ pc[c] = "done"
                       /\ outcome[c] \notin {"none", "ok"}

\* an add whose first lookup was answered with status 500 and a success body
C10_Witness ==
    \E c \in Clients :
        /\ Ended(c, "add") /\ Len(log[c]) = 1
        /\ log[c][1].req.cmd = "dns-list_records"
        /\ log[c][1].resp.status = 500 /\ log[c][1].resp.body = "success"
        /\ outcome[c] = "HTTPError"

\* C11: perform runs add_txt_record(validation_name, validation) and cleanup
\* runs delete_txt_record(validation_name, validation), each on a client built
\* for that call, which has sent its one validation probe before the call's
\* first request.
C11_Dispatch ==
    \A c \in Clients :
        pc[c] # "idle" /\ entry[c] \in {"perform", "cleanup"} /\ op[c] # "new"
            => /\ op[c] = (IF entry[c] = "perform" THEN "add" ELSE "delete")
               /\ nprobe[c] = 1


\* the commands of an add or delete that runs alone and has every request
\* answered, from the TXT records at its name when it begins
SoloCmds(method, recs, n, v) ==
    IF method = "add"
    THEN IF TxtAt(recs, n) = {} THEN <<"dns-list_records", "dns-add_record">>
         ELSE IF Holds(recs, n, v) THEN <<"dns-list_records">>
         ELSE <<"dns-list_records", "dns-list_records", "dns-add_record">>
    ELSE IF Holds(recs, n, v) THEN <<"dns-list_records", "dns-remove_record">>
         ELSE <<"dns-list_records">>

ValuesAt(recs, n) == {recs[i].value : i \in TxtAt(recs, n)}

\* C12: an add or delete whose requests interleave with those of another
\* client working on another name sends the requests it sends alone, ends as
\* it ends alone (ok exactly when all of them were answered, in error at the
\* first one that was not), and leaves at its own name the records it leaves
\* alone.
C12_NameIndependence ==
    \A c \in Clients :
        op[c] \in {"add", "delete"} /\ valid_key[c] =>
            LET solo == SoloCmds(op[c], start[c], name[c], content[c])
                l == log[c]
                did(cmd) == \E i \in 1..Len(l) : l[i].req.cmd = cmd /\ Answered(l[i])
                before == ValuesAt(start[c], name[c])
            IN  /\ Len(l) <= Len(solo)
                /\ \A i \in 1..Len(l) :
                      /\ l[i].req.cmd = solo[i]
                      /\ solo[i] # "dns-list_records"
                            => /\ l[i].req.record = name[c]
                               /\ l[i].req.type = "TXT"
                               /\ l[i].req.value = content[c]
                /\ pc[c] = "done" =>
                      /\ Len(l) >= 1
                      /\ outcome[c] = "ok"
                            <=> (Len(l) = Len(solo) /\ \A i \in 1..Len(l) : Answered(l[i]))
                      /\ outcome[c] # "ok" => ~Answered(l[Len(l)])
                      /\ ValuesAt(records, name[c]) =
                            IF did("dns-add_record") THEN before \cup {content[c]}
                            ELSE IF did("dns-remove_record") THEN before \ {content[c]}
                            ELSE before

\* both calls under way at once: one client has sent the two lookups of an add
\* that found another value, the other the lookup of a delete that found its own
C12_Witness ==
    /\ pc["c1"] = "add_create" /\ Len(log["c1"]) = 2
    /\ pc["c2"] = "del_remove" /\ Len(log["c2"]) = 1
    /\ name["c1"] # name["c2"]


\* C13: _test_key returns false exactly when the probe's body is not JSON or
\* its JSON has result "error" and data "invalid_api_key"; for a success
\* response and for an error response with other data it returns true,
\* whatever the status code.
C13_KeyValidation ==
    \A c \in Clients :
        Ended(c, "new") /\ entry[c] = "direct" =>
            LET r == log[c][1].resp
            IN  /\ (outcome[c] = "ok" /\ ~valid_key[c])
                      <=> r.body \in {"nonjson", "invalid_api_key"}
                /\ r.body \in {"success", "error"}
                      => outcome[c] = "ok" /\ valid_key[c]

\* a probe answered with status 500 and an error other than invalid_api_key
C13_Witness ==
    \E c \in Clients :
        /\ Ended(c, "new") /\ entry[c] = "direct"
        /\ log[c][1].resp.status = 500 /\ log[c][1].resp.body = "error"
        /\ outcome[c] = "ok" /\ valid_key[c]

\* C14: _api_request ends in exactly one way and sends at most one request:
\* with an invalid key it returns None without a request; otherwise it sends
\* one request, and another status than 200 raises the transport error, else a
\* non-JSON body raises the protocol error, else result "success" returns the
\* data, else the provider error is raised.
C14_ApiRequestClassified ==
    \A c \in Clients :
        Ended(c, "api") =>
            IF ~valid_key[c]
            THEN log[c] = <<>> /\ outcome[c] = "ok" /\ result[c] = None
            ELSE /\ Len(log[c]) = 1
                 /\ LET r == log[c][1].resp
                    IN  outcome[c] = IF r.status # 200 THEN "HTTPError"
                                     ELSE IF r.body = "nonjson" THEN "NonJSON"
                                     ELSE IF r.body = "success" THEN "ok"
                                     ELSE "PluginError"
                 /\ outcome[c] = "ok" <=> result[c] # None


\* C15: a client sends its key-validation probe once, when it is constructed
\* and before any other request of its own; from then on, as long as the client
\* is in use, no step (of add, delete, lookup or _api_request, however it ends)
\* changes valid_key, baseurl or api_key or sends the probe again.
C15_OneShotProbe ==
    [][\A c \in Clients :
          /\ nprobe'[c] <= 1
          /\ nprobe'[c] > nprobe[c] => pc[c] = "idle" /\ log[c] = <<>>
          /\ Sends(c) /\ op'[c] # "new" => nprobe[c] = 1
          /\ nprobe[c] = 1 /\ pc'[c] # "idle"
                => /\ nprobe'[c] = 1
                   /\ valid_key'[c] = valid_key[c]
                   /\ baseurl'[c] = baseurl[c]
                   /\ api_key'[c] = api_key[c]]_vars

\* an _api_request the provider answered with error / invalid_api_key, on a
\* client that goes on holding its key for valid
C15_Witness ==
    \E c \in Clients :
        /\ Ended(c, "api") /\ nprobe[c] = 1 /\ valid_key[c]
        /\ Len(log[c]) = 1 /\ log[c][1].resp.body = "invalid_api_key"
        /\ outcome[c] = "PluginError"


\* C16: an add_txt_record call with a valid key sends at most one remove
\* request and at most one create request, and by the time it ends it has sent
\* at least one list request; this whatever the provider holds or answers and
\* whatever another client does meanwhile.
C16_AddRequestBudget ==
    \A c \in Clients :
        op[c] = "add" /\ valid_key[c]
            => /\ CountCmd(log[c], "dns-remove_record") <= 1
               /\ CountCmd(log[c], "dns-add_record") <= 1
               /\ pc[c] = "done" => CountCmd(log[c], "dns-list_records") >= 1

\* an add that sent two list requests, one remove and one create
C16_Witness ==
    \E c \in Clients :
        /\ Ended(c, "add") /\ valid_key[c] /\ outcome[c] = "ok"
        /\ CountCmd(log[c], "dns-list_records") = 2
        /\ CountCmd(log[c], "dns-remove_record") = 1
        /\ CountCmd(log[c], "dns-add_record") = 1


\* C17: from a provider that holds at most one TXT record per name (here: none
\* at all), after successful add and delete operations (here: those of perform
\* and cleanup) the provider still holds at most one TXT record per name.
C17_SingleValued ==
    authOnly => \A n \in Names : Cardinality(TxtAt(records, n)) <= 1

\* C18: when the provider holds no TXT record at name, a successful
\* add_txt_record(name, token) followed, with no call in between, by a
\* successful delete_txt_record(name, token) leaves the provider's records as
\* they were before the add.
C18_RoundTrip ==
    \A c \in Clients :
        /\ Ended(c, "delete") /\ outcome[c] = "ok"
        /\ prev.op = "add" /\ prev.name = name[c] /\ prev.content = content[c]
        /\ TxtAt(prev.start, name[c]) = {}
        => records = prev.start

\* a round trip over two records that stay, the delete having removed the
\* record the add created
C18_Witness ==
    \E c \in Clients :
        /\ Ended(c, "delete") /\ outcome[c] = "ok"
        /\ prev.op = "add" /\ prev.name = name[c] /\ prev.content = content[c]
        /\ TxtAt(prev.start, name[c]) = {} /\ Len(prev.start) = 2
        /\ prev.nadd = 1
        /\ ~HasRecord(name[c], content[c])
        /\ \E i \in 1..Len(log[c]) :
              log[c][i].req.cmd = "dns-remove_record" /\ Answered(log[c][i])

====
